---- MODULE Spec2Model ----
(***************************************************************************)
(* Model of the two event generators of compare-olap-rust.                 *)
(*                                                                         *)
(*   gen_data.rs             one producer (main) fanning every generated   *)
(*                           event out to three worker threads (SQLite,    *)
(*                           DuckDB, DuckDB-typed) over sync_channel(1).   *)
(*   gen_data_normalized.rs  a single thread that generates the same event *)
(*                           tree and persists it itself.                  *)
(*                                                                         *)
(* prog says which of the two binaries is running.                         *)
(***************************************************************************)
EXTENDS Integers, Sequences, FiniteSets, TLC

VARIABLES
    prog,       \* "denorm" (gen_data) or "norm" (gen_data_normalized)
    pc,         \* position of the main thread
    sess,       \* sessions started so far (the loop variable i, after increment)
    pagesLeft,  \* page loads still to generate in the current session
    evLeft,     \* sub-event draws still to make for the current page
    forms,      \* the forms counter of the current page
    page,       \* the current page_load event (page_load in the source)
    cur,        \* the event being offered to the sinks / persisted
    k,          \* index of the sink the next send / drop / join is for
    drawn,      \* history: every event generated, suppressed ones included
    emitted,    \* history: every event handed on by the generator
    tx,         \* per sink: state of the Sender held by main
    queue,      \* per sink: the channel's buffer
    offered,    \* per sink: number of sends that returned Ok
    taken,      \* per sink: number of recvs that returned Ok
    worker,     \* per sink: position of the worker thread
    inHand,     \* per sink: the event the worker received and is persisting
    persisted,  \* per sink: the rows of its events table, in insertion order
    rows,       \* norm: the events persisted, in insertion order
    exited,     \* the process has exited
    rng,        \* the values the random source can yield in this run
    now,        \* the variable now, in seconds since the start of the run
    sessTs,     \* history: the timestamp of every session started
    loads,      \* history: the page_loads value drawn for every session
    pageEvents, \* history: the page_events value drawn for every page
    ctx         \* norm: Ctx, the store behind its conn and what they went through

vars == <<prog, pc, sess, pagesLeft, evLeft, forms, page, cur, k, drawn, emitted,
          tx, queue, offered, taken, worker, inHand, persisted, rows, exited,
          rng, now, sessTs, loads, pageEvents, ctx>>

\* The parts of ctx.
\* The four HashMaps of Ctx, value -> id.
caches == ctx.caches
\* The rows of the four dimension tables.
tables == ctx.tables
\* The rows of the events table, column by column.
facts == ctx.facts
\* What conn.last_insert_rowid() returns.
lastRowid == ctx.lastRowid
\* History: every call of a persist_<dimension> function that returned Ok.
resolves == ctx.resolves
\* History: an INSERT has violated a UNIQUE constraint.
conflict == ctx.conflict

clockVars == <<now, sessTs, loads>>
dimVars == <<ctx>>
genVars == <<sess, pagesLeft, evLeft, forms, page, drawn, emitted, clockVars, pageEvents>>
chanVars == <<tx, queue, offered, taken>>
workVars == <<worker, inHand, persisted>>

(***************************************************************************)
(* Bounds of the model.                                                    *)
(***************************************************************************)
MaxSessions == 2
\* Events generated in a run: once reached, a session draws a single page load
\* and a page draws no sub-event.
MaxEvents == 3
\* Persistence calls that fail in a run.
MaxFaults == 1

(***************************************************************************)
(* Program constants.                                                      *)
(***************************************************************************)
QueueCap == 1
PageEventsEnd == 20
ChatBelow == 70
ContactBelow == 85
\* rng.gen_range(0..40)
PathIndexEnd == 40
\* let secs: i8
I8Bits == 8

Sinks == 1 .. 3
SinkName == <<"SQLite", "DuckDB", "DuckDB-typed">>

NoEvent ==
    [id |-> 0, session |-> 0, page |-> 0, type |-> "none", form |-> "none",
     timestamp |-> 0]

Min(a, b) == IF a <= b THEN a ELSE b

IsPrefix(a, b) == Len(a) <= Len(b) /\ SubSeq(b, 1, Len(a)) = a

(***************************************************************************)
(* The generator.                                                          *)
(***************************************************************************)
\* Mutant of page_load_choices: one of the five counts is another number.
page_load_choices_off == <<1, 3, 4, 8, 12>>

page_load_choices == <<1, 2, 4, 8, 12>>
page_load_weights == <<40, 30, 20, 8, 2>>

\* WeightedIndex::new returns Ok: there is a weight and not all weights are 0.
WeightedIndexNew ==
    Len(page_load_weights) > 0
    /\ \E n \in 1 .. Len(page_load_weights) : page_load_weights[n] > 0

\* WeightedIndex::sample: an index whose weight is positive.
WeightedIndexSample == {n \in 1 .. Len(page_load_weights) : page_load_weights[n] > 0}

\* Events the bound still leaves room for.
Room == IF Len(drawn) < MaxEvents THEN MaxEvents - Len(drawn) ELSE 0

\* The page_loads values a session can draw, within the model's bound.
PageLoadDraws ==
    {c \in {page_load_choices[n] : n \in WeightedIndexSample} :
        c = page_load_choices[1] \/ c <= Room}

\* rng.gen_range(0..20), within the model's bound.
PageEventDraws == 0 .. Min(PageEventsEnd - 1, Room)

\* chance: f32 in [0, 1), in hundredths.
ChanceDraws == {0, 69, 70, 84, 85, 99}

\* Mutant of FreshPageId: the page_id of the page before is used again.
StalePageId == IF page.page = 0 THEN 1 ELSE page.page

\* Uuid::new_v4(): a value no earlier event, page or session carries.
FreshId == Len(drawn) + 1
FreshPageId == Cardinality({n \in 1 .. Len(drawn) : drawn[n].type = "page_load"}) + 1

\* The range of i8, and a value reduced to it as two's complement does.
I8 == (0 - 2 ^ (I8Bits - 1)) .. (2 ^ (I8Bits - 1) - 1)
I8Wrap(x) == ((x + 2 ^ (I8Bits - 1)) % 2 ^ I8Bits) - 2 ^ (I8Bits - 1)

\* secs.abs() where the negation wraps (a build without overflow checks).
I8Abs(secs) == IF secs < 0 THEN I8Wrap(0 - secs) ELSE secs

\* secs.abs() overflows: a build with overflow checks panics here.
AbsOverflows(secs) == secs < 0 /\ (0 - secs) \notin I8

\* gen_data: generate_page_load(&ctx, &session_id, timestamp); path and browser
\* are what ctx.random_path() and ctx.random_browser() returned.
generate_page_load(session_id, timestamp, path, browser) ==
    [id |-> FreshId, session |-> session_id, page |-> FreshPageId,
     type |-> "page_load", form |-> "none", timestamp |-> timestamp,
     payload |-> [path |-> "/" \o path, user_agent |-> browser]]

\* Mutant of generate_event: the event is stamped with now, which the session
\* loop has already advanced, instead of the timestamp passed in.
generate_event_now(p, chance, timestamp) ==
    IF chance < ChatBelow
    THEN [id |-> FreshId, session |-> p.session, page |-> p.page,
          type |-> "chat_message", form |-> "none", timestamp |-> now]
    ELSE IF chance < ContactBelow
    THEN [id |-> FreshId, session |-> p.session, page |-> p.page,
          type |-> "form_submit", form |-> "contact-us", timestamp |-> now]
    ELSE [id |-> FreshId, session |-> p.session, page |-> p.page,
          type |-> "form_submit", form |-> "feedback", timestamp |-> now]

\* Mutant of generate_event: the event is given the ids of the first session
\* and page in place of those of the page load passed in.
generate_event_first_page(p, chance, timestamp) ==
    IF chance < ChatBelow
    THEN [id |-> FreshId, session |-> 1, page |-> 1,
          type |-> "chat_message", form |-> "none", timestamp |-> timestamp]
    ELSE IF chance < ContactBelow
    THEN [id |-> FreshId, session |-> 1, page |-> 1,
          type |-> "form_submit", form |-> "contact-us", timestamp |-> timestamp]
    ELSE [id |-> FreshId, session |-> 1, page |-> 1,
          type |-> "form_submit", form |-> "feedback", timestamp |-> timestamp]

\* gen_data: generate_event(&ctx, &page_load, timestamp)
generate_event(p, chance, timestamp) ==
    IF chance < ChatBelow
    THEN [id |-> FreshId, session |-> p.session, page |-> p.page,
          type |-> "chat_message", form |-> "none", timestamp |-> timestamp]
    ELSE IF chance < ContactBelow
    THEN [id |-> FreshId, session |-> p.session, page |-> p.page,
          type |-> "form_submit", form |-> "contact-us", timestamp |-> timestamp]
    ELSE [id |-> FreshId, session |-> p.session, page |-> p.page,
          type |-> "form_submit", form |-> "feedback", timestamp |-> timestamp]

\* The timestamp of the session being generated (let timestamp = now.clone()).
SessionTimestamp == sessTs[Len(sessTs)]

\* The words of ws joined by single spaces (Vec::join(" ")).
RECURSIVE Join(_)
Join(ws) ==
    IF Len(ws) = 0 THEN ""
    ELSE IF Len(ws) = 1 THEN ws[1]
    ELSE ws[1] \o " " \o Join(Tail(ws))

\* str::split: the pieces of text between the occurrences of sep, the empty
\* piece before a leading sep included. text is given piece by piece, sep being
\* a piece of its own.
RECURSIVE Split(_, _)
Split(text, sep) ==
    IF Len(text) = 0 THEN <<"">>
    ELSE LET front == Split(SubSeq(text, 1, Len(text) - 1), sep)
             last == text[Len(text)]
         IN  IF last = sep
             THEN Append(front, "")
             ELSE [front EXCEPT ![Len(front)] = @ \o last]

\* const BROWSERS: the raw string literal, which opens with a line break.
BROWSERS ==
    <<"\n",
      "Mozilla/5.0 (Macintosh; Intel Mac OS X 10_15_7) AppleWebKit/605.1.15 (KHTML, like Gecko) Version/16.4 Safari/605.1.15",
      "\n",
      "Mozilla/5.0 (Macintosh; Intel Mac OS X x.y; rv:42.0) Gecko/20100101 Firefox/42.0",
      "\n",
      "Mozilla/5.0 (Windows NT 6.1; Win64; x64; rv:47.0) Gecko/20100101 Firefox/47.0",
      "\n",
      "Mozilla/5.0 (X11; Linux x86_64) AppleWebKit/537.36 (KHTML, like Gecko) Chrome/51.0.2704.103 Safari/537.36",
      "\n",
      "Mozilla/5.0 (X11; Linux x86_64) AppleWebKit/537.36 (KHTML, like Gecko) Chrome/51.0.2704.106 Safari/537.36 OPR/38.0.2220.41",
      "\n",
      "Mozilla/5.0 (Windows NT 10.0; Win64; x64) AppleWebKit/537.36 (KHTML, like Gecko) Chrome/91.0.4472.124 Safari/537.36 Edg/91.0.864.59",
      "\n",
      "Mozilla/5.0 (iPhone; CPU iPhone OS 13_5_1 like Mac OS X) AppleWebKit/605.1.15 (KHTML, like Gecko) Version/13.1.1 Mobile/15E148 Safari/604.1",
      "\n",
      "Mozilla/5.0 (Macintosh; Intel Mac OS X 10.15; rv:109.0) Gecko/20100101 Firefox/111.0",
      "\n",
      "Mozilla/5.0 (compatible; Googlebot/2.1; +http://www.google.com/bot.html)",
      "\n",
      "curl/7.64.1">>

\* Ctx::new: browsers: BROWSERS.split("\n").collect()
browsers == Split(BROWSERS, "\n")

\* Ctx::new: words: WORDS.split("\n").collect(), its first PathIndexEnd entries
\* (WORDS opens with its first word; the typographic apostrophe of two of
\* the words is written ').
words ==
    <<"water", "away", "good", "want", "over", "how", "did", "man", "going", "where",
      "would", "or", "took", "school", "think", "home", "who", "didn't", "ran", "know",
      "bear", "can't", "again", "cat", "long", "things", "new", "after", "wanted", "eat",
      "everyone", "our", "two", "has", "yes", "play", "take", "thought", "dog", "well">>

\* Ctx::random_path, random_browser, random_word: the entry at an index the
\* random source of this run can yield (Rust indexes from 0).
random_path == {words[i + 1] : i \in rng.paths}
random_browser == {browsers[i + 1] : i \in rng.browsers}
random_word == {words[i + 1] : i \in rng.words}

\* Ctx::random_text: 1 to 29 random words joined by spaces.
random_text ==
    UNION {{Join(ws) : ws \in [1 .. n -> random_word]} : n \in rng.lens}

\* rng.gen_range(0..=100)
random_score == rng.scores

\* gen_data_normalized: generate_page_load(&ctx, &session_id, timestamp)
generate_page_load_n(session_id, timestamp, path, browser) ==
    [id |-> FreshId, session |-> session_id, page |-> FreshPageId,
     type |-> "page_load", form |-> "none", timestamp |-> timestamp,
     payload |-> [path |-> "/" \o path, user_agent |-> browser]]

\* gen_data_normalized: generate_event(&ctx, &page_load, timestamp). The variant
\* of EventPayload is written as the pair type, form: ChatMessage is
\* chat_message/none, ContactUs form_submit/contact-us, Feedback
\* form_submit/feedback.
\* d holds the draws the taken branch makes.
generate_event_n(p, chance, timestamp, d) ==
    IF chance < ChatBelow
    THEN [id |-> FreshId, session |-> p.session, page |-> p.page,
          type |-> "chat_message", form |-> "none", timestamp |-> timestamp,
          payload |-> [text |-> d.text]]
    ELSE IF chance < ContactBelow
    THEN [id |-> FreshId, session |-> p.session, page |-> p.page,
          type |-> "form_submit", form |-> "contact-us", timestamp |-> timestamp,
          payload |-> [name |-> d.name, email |-> d.w1 \o "@" \o d.w2]]
    ELSE [id |-> FreshId, session |-> p.session, page |-> p.page,
          type |-> "form_submit", form |-> "feedback", timestamp |-> timestamp,
          payload |-> [score |-> d.score]]

\* The draws generate_event makes after chance, by the branch chance selects.
EventDraws(chance) ==
    IF chance < ChatBelow
    THEN {[text |-> t] : t \in random_text}
    ELSE IF chance < ContactBelow
    THEN {[w1 |-> a, w2 |-> b, name |-> c] :
             a \in random_word, b \in random_word, c \in random_word}
    ELSE {[score |-> n] : n \in random_score}

\* Mutant of IsFormDenorm: a chat message counts as a form too.
IsFormOrChat(e) == e.type \in {"form_submit", "chat_message"}

\* gen_data: event.r#type == "form_submit"
IsFormDenorm(e) == e.type = "form_submit"

\* gen_data_normalized: Feedback { .. } | ContactUs { .. }
IsFormNorm(e) == e.form \in {"feedback", "contact-us"}

\* Mutant of SkipFormDenorm: two forms kept per page.
SkipFormAfterTwo(f) == f > 2

\* gen_data: if forms > 1 { continue; }
SkipFormDenorm(f) == f > 1

\* gen_data_normalized: if forms > 1 { continue; }
SkipFormNorm(f) == f > 1

(***************************************************************************)
(* Init: both binaries start with nothing generated; gen_data has created  *)
(* its three channels and spawned its three workers.                       *)
(***************************************************************************)
\* The random source of a run in which every draw of the lexicon (an index),
\* of the score and of secs has one value to take.
QuietRng ==
    [secs |-> {5}, paths |-> {0}, browsers |-> {Len(browsers) - 1},
     words |-> {0}, lens |-> {1}, scores |-> {70}]

Dims == {"event_types", "form_types", "paths", "user_agents"}

Start(r) ==
    /\ rng = r
    /\ now = 0
    /\ sessTs = <<>>
    /\ loads = <<>>
    /\ pageEvents = <<>>
    /\ ctx = [caches |-> [d \in Dims |-> {}], tables |-> [d \in Dims |-> <<>>],
              facts |-> <<>>, lastRowid |-> 0, resolves |-> <<>>, conflict |-> FALSE]
    /\ prog \in {"denorm", "norm"}
    /\ pc = "session"
    /\ sess = 0
    /\ pagesLeft = 0
    /\ evLeft = 0
    /\ forms = 0
    /\ page = NoEvent
    /\ cur = NoEvent
    /\ k = 1
    /\ drawn = <<>>
    /\ emitted = <<>>
    /\ tx = [s \in Sinks |-> "live"]
    /\ queue = [s \in Sinks |-> <<>>]
    /\ offered = [s \in Sinks |-> 0]
    /\ taken = [s \in Sinks |-> 0]
    /\ worker = [s \in Sinks |-> IF prog = "denorm" THEN "recv" ELSE "none"]
    /\ inHand = [s \in Sinks |-> NoEvent]
    /\ persisted = [s \in Sinks |-> <<>>]
    /\ rows = <<>>
    /\ exited = FALSE

Init == Start(QuietRng)

(***************************************************************************)
(* Channels: std::sync::mpsc::sync_channel::<Event>(1).                    *)
(***************************************************************************)
\* Mutant of CanSend: a buffer one slot larger.
CanSendOneMore(q) == Len(q) < QueueCap + 1

\* send blocks while the buffer holds QueueCap events.
CanSend(q) == Len(q) < QueueCap

\* A sent event goes to the back of the buffer.
Enqueue(q, e) == Append(q, e)

\* Mutant of DropSender: the Sender is kept alive.
DropSenderKept(t, s) == t

\* drop(sender): the channel is closed from the producer's side.
DropSender(t, s) == [t EXCEPT ![s] = "dropped"]

\* A panic of main unwinds its stack, which drops every Sender it still holds.
UnwindSenders(t) == [s \in Sinks |-> IF t[s] = "live" THEN "unwound" ELSE t[s]]

\* recv returns Err once every Sender is gone and the buffer is empty.
Disconnected(t, q) == t # "live" /\ q = <<>>

\* Mutant of RxGone: the Receiver counts as gone only when its worker has
\* returned, so that a send to a sink whose worker panicked is still accepted.
RxGoneOnReturn(s) == worker[s] = "done"

\* The Receiver of sink s is dropped when its worker's closure ends, by return or
\* by panic.
RxGone(s) == worker[s] \in {"panicked", "done"}

\* Whether the bound on failing persistence calls leaves room for one more.
MayFail == Cardinality({s \in Sinks : worker[s] = "panicked"}) < MaxFaults

\* Mutant of InsertRow: the row put before the others.
InsertRowFront(store, e) == <<e>> \o store

\* INSERT INTO events: the row is added after the rows already there.
InsertRow(store, e) == Append(store, e)

(***************************************************************************)
(* gen_data: the main thread.                                              *)
(***************************************************************************)
\* for i in 0..max_sessions { timestamp; secs; now += ..; draw page_loads;
\* session_id }. Where secs.abs() overflows, the build decides between the
\* wrapped value and a panic.
DSession ==
    /\ prog = "denorm" /\ pc = "session" /\ ~exited
    /\ \/ /\ sess < MaxSessions
          /\ \E secs \in rng.secs :
                \/ /\ sessTs' = Append(sessTs, now)
                   /\ now' = now + I8Abs(secs)
                   /\ WeightedIndexNew
                   /\ \E n \in PageLoadDraws :
                         /\ pagesLeft' = n
                         /\ loads' = Append(loads, n)
                   /\ sess' = sess + 1
                   /\ pc' = "page"
                   /\ UNCHANGED <<k, tx>>
                \/ /\ AbsOverflows(secs)
                   /\ pc' = "panicked_abs"
                   /\ tx' = UnwindSenders(tx)
                   /\ UNCHANGED <<sess, pagesLeft, clockVars, k>>
                \/ /\ ~WeightedIndexNew
                   /\ pc' = "panicked_dist"
                   /\ tx' = UnwindSenders(tx)
                   /\ UNCHANGED <<sess, pagesLeft, clockVars, k>>
       \/ /\ sess >= MaxSessions
          /\ pc' = "drop"
          /\ k' = 1
          /\ UNCHANGED <<sess, pagesLeft, clockVars, tx>>
    /\ UNCHANGED <<prog, rng, dimVars, evLeft, forms, page, cur, drawn, emitted, queue,
                   offered, taken, workVars, rows, exited, pageEvents>>

\* for _ in 0..page_loads { let page_load = generate_page_load(..); ...
DPage ==
    /\ prog = "denorm" /\ pc = "page" /\ ~exited
    /\ \/ /\ pagesLeft > 0
          /\ \E path \in random_path, browser \in random_browser :
             LET e == generate_page_load(sess, SessionTimestamp, path, browser)
             IN  /\ page' = e
                 /\ cur' = e
                 /\ drawn' = Append(drawn, e)
                 /\ emitted' = Append(emitted, e)
          /\ pagesLeft' = pagesLeft - 1
          /\ pc' = "send"
          /\ k' = 1
       \/ /\ pagesLeft = 0
          /\ pc' = "session"
          /\ UNCHANGED <<pagesLeft, page, cur, drawn, emitted, k>>
    /\ UNCHANGED <<prog, rng, dimVars, clockVars, pageEvents, sess, evLeft, forms, chanVars,
                   workVars, rows, exited>>

\* What follows once an event has been handed on: a page load is followed by its
\* sub-event loop, a sub-event by the next iteration of that loop.
AfterEvent(e) == IF e.type = "page_load" THEN "pageevents" ELSE "event"

\* Mutant of DSendOk: try_send in place of send, which gives the event up when
\* the buffer is full instead of waiting for room.
DSendOkTry(s) ==
    /\ prog = "denorm" /\ pc = "send" /\ k = s /\ ~exited
    /\ ~RxGone(s)
    /\ IF CanSend(queue[s])
       THEN /\ queue' = [queue EXCEPT ![s] = Enqueue(queue[s], cur)]
            /\ offered' = [offered EXCEPT ![s] = offered[s] + 1]
       ELSE UNCHANGED <<queue, offered>>
    /\ IF s < 3
       THEN k' = s + 1 /\ pc' = pc
       ELSE k' = 1 /\ pc' = AfterEvent(cur)
    /\ UNCHANGED <<prog, rng, dimVars, genVars, cur, tx, taken, workVars, rows, exited>>

\* Mutant of DSendOk: the send of a sub-event to the third sink (one of three
\* copied lines) is missing.
DSendOkTwoSinks(s) ==
    /\ prog = "denorm" /\ pc = "send" /\ k = s /\ ~exited
    /\ ~RxGone(s)
    /\ CanSend(queue[s])
    /\ IF s = 3 /\ cur.type # "page_load"
       THEN UNCHANGED <<queue, offered>>
       ELSE /\ queue' = [queue EXCEPT ![s] = Enqueue(queue[s], cur)]
            /\ offered' = [offered EXCEPT ![s] = offered[s] + 1]
    /\ IF s < 3
       THEN k' = s + 1 /\ pc' = pc
       ELSE k' = 1 /\ pc' = AfterEvent(cur)
    /\ UNCHANGED <<prog, rng, dimVars, genVars, cur, tx, taken, workVars, rows, exited>>

\* x_tx.send(event).unwrap() returning Ok: the event is in the sink's buffer.
DSendOk(s) ==
    /\ prog = "denorm" /\ pc = "send" /\ k = s /\ ~exited
    /\ ~RxGone(s)
    /\ CanSend(queue[s])
    /\ queue' = [queue EXCEPT ![s] = Enqueue(queue[s], cur)]
    /\ offered' = [offered EXCEPT ![s] = offered[s] + 1]
    /\ IF s < 3
       THEN k' = s + 1 /\ pc' = pc
       ELSE k' = 1 /\ pc' = AfterEvent(cur)
    /\ UNCHANGED <<prog, rng, dimVars, genVars, cur, tx, taken, workVars, rows, exited>>

\* x_tx.send(event).unwrap() with the Receiver gone: Err, and main panics.
DSendErr(s) ==
    /\ prog = "denorm" /\ pc = "send" /\ k = s /\ ~exited
    /\ RxGone(s)
    /\ pc' = "panicked_send"
    /\ tx' = UnwindSenders(tx)
    /\ UNCHANGED <<prog, rng, dimVars, genVars, cur, k, queue, offered, taken, workVars, rows,
                   exited>>

\* let mut forms = 0; let page_events = rng.gen_range(0..20);
DPageEvents ==
    /\ prog = "denorm" /\ pc = "pageevents" /\ ~exited
    /\ forms' = 0
    /\ \E n \in PageEventDraws :
          /\ evLeft' = n
          /\ pageEvents' = Append(pageEvents, n)
    /\ pc' = "event"
    /\ UNCHANGED <<prog, rng, dimVars, clockVars, sess, pagesLeft, page, cur, k, drawn, emitted, chanVars,
                   workVars, rows, exited>>

\* for _ in 0..page_events { generate_event; the forms check; the sends }
DEvent ==
    /\ prog = "denorm" /\ pc = "event" /\ ~exited
    /\ \/ /\ evLeft > 0
          /\ \E c \in ChanceDraws :
                LET e == generate_event(page, c, SessionTimestamp)
                    f == IF IsFormDenorm(e) THEN forms + 1 ELSE forms
                IN  /\ drawn' = Append(drawn, e)
                    /\ forms' = f
                    /\ IF IsFormDenorm(e) /\ SkipFormDenorm(f)
                       THEN /\ pc' = "event"
                            /\ UNCHANGED <<cur, emitted, k>>
                       ELSE /\ cur' = e
                            /\ emitted' = Append(emitted, e)
                            /\ pc' = "send"
                            /\ k' = 1
          /\ evLeft' = evLeft - 1
       \/ /\ evLeft = 0
          /\ pc' = "page"
          /\ UNCHANGED <<evLeft, forms, cur, drawn, emitted, k>>
    /\ UNCHANGED <<prog, rng, dimVars, clockVars, pageEvents, sess, pagesLeft, page, chanVars,
                   workVars, rows, exited>>

\* drop(sqlite_tx); drop(duck_tx); drop(duck_typed_tx);
DDrop ==
    /\ prog = "denorm" /\ pc = "drop" /\ ~exited
    /\ tx' = DropSender(tx, k)
    /\ IF k < 3
       THEN k' = k + 1 /\ pc' = pc
       ELSE k' = 1 /\ pc' = "join"
    /\ UNCHANGED <<prog, rng, dimVars, genVars, cur, queue, offered, taken, workVars, rows,
                   exited>>

\* x_handle.join().unwrap() on a worker that returned.
DJoinOk ==
    /\ prog = "denorm" /\ pc = "join" /\ ~exited
    /\ worker[k] = "done"
    /\ IF k < 3
       THEN k' = k + 1 /\ pc' = pc
       ELSE k' = k /\ pc' = "done"
    /\ UNCHANGED <<prog, rng, dimVars, genVars, cur, chanVars, workVars, rows, exited>>

\* x_handle.join().unwrap() on a worker that panicked: Err, and main panics.
DJoinErr ==
    /\ prog = "denorm" /\ pc = "join" /\ ~exited
    /\ worker[k] = "panicked"
    /\ pc' = "panicked_join"
    /\ tx' = UnwindSenders(tx)
    /\ UNCHANGED <<prog, rng, dimVars, genVars, cur, k, queue, offered, taken, workVars, rows,
                   exited>>

MainEnded ==
    pc \in {"done", "panicked_send", "panicked_join", "panicked_persist",
            "panicked_abs", "panicked_dist"}

\* main returned or panicked: the process exits, and every thread with it.
Exit ==
    /\ MainEnded /\ ~exited
    /\ exited' = TRUE
    /\ UNCHANGED <<prog, rng, dimVars, pc, genVars, cur, k, chanVars, workVars, rows>>

(***************************************************************************)
(* gen_data: the worker of sink s.                                         *)
(***************************************************************************)
\* while let Ok(e) = x_rx.recv()
WRecv(s) ==
    /\ worker[s] = "recv" /\ ~exited
    /\ \/ /\ queue[s] # <<>>
          /\ inHand' = [inHand EXCEPT ![s] = Head(queue[s])]
          /\ queue' = [queue EXCEPT ![s] = Tail(queue[s])]
          /\ taken' = [taken EXCEPT ![s] = taken[s] + 1]
          /\ worker' = [worker EXCEPT ![s] = "persist"]
       \/ /\ Disconnected(tx[s], queue[s])
          /\ worker' = [worker EXCEPT ![s] = "finalize"]
          /\ UNCHANGED <<inHand, queue, taken>>
    /\ UNCHANGED <<prog, rng, dimVars, pc, genVars, cur, k, tx, offered, persisted, rows, exited>>

\* Mutant of WPersistOk: the three workers write through one connection, that
\* of the first sink.
WPersistOkShared(s) ==
    /\ worker[s] = "persist" /\ ~exited
    /\ persisted' = [persisted EXCEPT ![1] = InsertRow(persisted[1], inHand[s])]
    /\ inHand' = [inHand EXCEPT ![s] = NoEvent]
    /\ worker' = [worker EXCEPT ![s] = "recv"]
    /\ UNCHANGED <<prog, rng, dimVars, pc, genVars, cur, k, chanVars, rows, exited>>

\* x_conn.execute(INSERT ...).unwrap() returning Ok.
WPersistOk(s) ==
    /\ worker[s] = "persist" /\ ~exited
    /\ persisted' = [persisted EXCEPT ![s] = InsertRow(persisted[s], inHand[s])]
    /\ inHand' = [inHand EXCEPT ![s] = NoEvent]
    /\ worker' = [worker EXCEPT ![s] = "recv"]
    /\ UNCHANGED <<prog, rng, dimVars, pc, genVars, cur, k, chanVars, rows, exited>>

\* x_conn.execute(INSERT ...).unwrap() on Err: the worker panics; unwinding
\* drops its Receiver and whatever the buffer holds.
WPersistErr(s) ==
    /\ worker[s] = "persist" /\ ~exited
    /\ MayFail
    /\ worker' = [worker EXCEPT ![s] = "panicked"]
    /\ inHand' = [inHand EXCEPT ![s] = NoEvent]
    /\ queue' = [queue EXCEPT ![s] = <<>>]
    /\ UNCHANGED <<prog, rng, dimVars, pc, genVars, cur, k, tx, offered, taken, persisted, rows,
                   exited>>

\* common::exec_x(&conn, "SELECT count(*) FROM events").unwrap() returning Ok.
WFinalizeOk(s) ==
    /\ worker[s] = "finalize" /\ ~exited
    /\ worker' = [worker EXCEPT ![s] = "done"]
    /\ UNCHANGED <<prog, rng, dimVars, pc, genVars, cur, k, chanVars, inHand, persisted, rows,
                   exited>>

\* common::exec_x(..).unwrap() on Err: the worker panics.
WFinalizeErr(s) ==
    /\ worker[s] = "finalize" /\ ~exited
    /\ MayFail
    /\ worker' = [worker EXCEPT ![s] = "panicked"]
    /\ UNCHANGED <<prog, rng, dimVars, pc, genVars, cur, k, chanVars, inHand, persisted, rows,
                   exited>>

Worker(s) ==
    \/ WRecv(s)
    \/ WPersistOk(s)
    \/ WPersistErr(s)
    \/ WFinalizeOk(s)
    \/ WFinalizeErr(s)

Producer ==
    \/ DSession
    \/ DPage
    \/ \E s \in Sinks : DSendOk(s)
    \/ \E s \in Sinks : DSendErr(s)
    \/ DPageEvents
    \/ DEvent
    \/ DDrop
    \/ DJoinOk
    \/ DJoinErr

(***************************************************************************)
(* gen_data_normalized: the single thread.                                 *)
(***************************************************************************)
\* for i in 0..max_sessions { timestamp; secs; now += ..; draw page_loads;
\* session_id }. Where secs.abs() overflows, the build decides between the
\* wrapped value and a panic.
NSession ==
    /\ prog = "norm" /\ pc = "session" /\ ~exited
    /\ \/ /\ sess < MaxSessions
          /\ \E secs \in rng.secs :
                \/ /\ sessTs' = Append(sessTs, now)
                   /\ now' = now + I8Abs(secs)
                   /\ WeightedIndexNew
                   /\ \E n \in PageLoadDraws :
                         /\ pagesLeft' = n
                         /\ loads' = Append(loads, n)
                   /\ sess' = sess + 1
                   /\ pc' = "page"
                \/ /\ AbsOverflows(secs)
                   /\ pc' = "panicked_abs"
                   /\ UNCHANGED <<sess, pagesLeft, clockVars>>
                \/ /\ ~WeightedIndexNew
                   /\ pc' = "panicked_dist"
                   /\ UNCHANGED <<sess, pagesLeft, clockVars>>
       \/ /\ sess >= MaxSessions
          /\ pc' = "count"
          /\ UNCHANGED <<sess, pagesLeft, clockVars>>
    /\ UNCHANGED <<prog, rng, dimVars, evLeft, forms, page, cur, k, drawn, emitted, chanVars,
                   workVars, rows, exited, pageEvents>>

\* for _ in 0..page_loads { let page_load = generate_page_load(..); ...
NPage ==
    /\ prog = "norm" /\ pc = "page" /\ ~exited
    /\ \/ /\ pagesLeft > 0
          /\ \E path \in random_path, browser \in random_browser :
             LET e == generate_page_load_n(sess, SessionTimestamp, path, browser)
             IN  /\ page' = e
                 /\ cur' = e
                 /\ drawn' = Append(drawn, e)
                 /\ emitted' = Append(emitted, e)
          /\ pagesLeft' = pagesLeft - 1
          /\ pc' = "persist"
       \/ /\ pagesLeft = 0
          /\ pc' = "session"
          /\ UNCHANGED <<pagesLeft, page, cur, drawn, emitted>>
    /\ UNCHANGED <<prog, rng, dimVars, clockVars, pageEvents, sess, evLeft, forms, k, chanVars,
                   workVars, rows, exited>>

(***************************************************************************)
(* gen_data_normalized: Ctx, its four caches and the store behind conn.     *)
(* A cache is a set of entries [value, id]; a table is the sequence of its  *)
(* rows in insertion order; a column that is NULL holds the empty set and   *)
(* a column that is set holds the singleton of its value.                   *)
(***************************************************************************)
NULL == {}
Set(v) == {v}

\* Mutant of CacheHas: the lookup never finds the value.
CacheHasNever(cache, v) == FALSE

\* Mutant of CacheGet: the size of the map is returned in place of the id.
CacheGetLen(cache, v) == Cardinality(cache)

\* HashMap::get(value) is Some(_), and the id it holds.
CacheHas(cache, v) == \E c \in cache : c.value = v
CacheGet(cache, v) == (CHOOSE c \in cache : c.value = v).id

\* Mutant of CachePut: the map is replaced by one holding the new entry only.
CachePutAlone(cache, v, id) == {[value |-> v, id |-> id]}

\* HashMap::insert(value, id)
CachePut(cache, v, id) == {c \in cache : c.value # v} \cup {[value |-> v, id |-> id]}

\* TEXT NOT NULL UNIQUE: a row with this value is already there.
UniqueViolation(table, v) == \E n \in 1 .. Len(table) : table[n].value = v

\* INTEGER PRIMARY KEY: the rowid given to a new row is one more than the
\* largest in the table.
NextRowid(table) ==
    IF Len(table) = 0 THEN 1
    ELSE (CHOOSE m \in {table[n].id : n \in 1 .. Len(table)} :
              \A n \in 1 .. Len(table) : table[n].id <= m) + 1

\* INSERT INTO <dimension table> (<value column>) VALUES (?)
InsertDim(table, v) == Append(table, [id |-> NextRowid(table), value |-> v])

\* The state persist_event works on and hands from one step to the next: ok is
\* FALSE once a step has returned Err (the ? operator returns at once), id is
\* the id the last resolution returned.
CtxState ==
    [ok |-> TRUE, id |-> 0, caches |-> caches, tables |-> tables, facts |-> facts,
     lastRowid |-> lastRowid, resolves |-> resolves, conflict |-> conflict]

\* Mutant of Returned: the dimension rows a failed persist_event had inserted
\* are rolled back, the cache entries made for them are not.
ReturnedRolledBack(st) ==
    [caches |-> st.caches, tables |-> IF st.ok THEN st.tables ELSE tables,
     facts |-> st.facts, lastRowid |-> st.lastRowid, resolves |-> st.resolves,
     conflict |-> st.conflict]

\* What is left of that state when persist_event has returned.
Returned(st) ==
    [caches |-> st.caches, tables |-> st.tables, facts |-> st.facts,
     lastRowid |-> st.lastRowid, resolves |-> st.resolves, conflict |-> st.conflict]

\* The places of persist_event where the store can return an error.
Faults == {"none", "event_types", "form_types", "paths", "user_agents", "events"}

\* Mutant of persist_dim: the cache is not consulted, every call inserts.
persist_dim_nocache(st, dim, v, f) ==
    IF ~st.ok THEN st
    ELSE IF f = dim THEN [st EXCEPT !.ok = FALSE]
    ELSE IF UniqueViolation(st.tables[dim], v)
    THEN [st EXCEPT !.ok = FALSE, !.conflict = TRUE]
    ELSE LET t == InsertDim(st.tables[dim], v)
             last == t[Len(t)].id
             id == last
         IN  [st EXCEPT !.tables[dim] = t,
                        !.lastRowid = last,
                        !.caches[dim] = CachePut(@, v, id),
                        !.id = id,
                        !.resolves = Append(@, [dim |-> dim, value |-> v, id |-> id,
                                                hit |-> FALSE])]

\* Mutant of persist_dim: the cache entry is made before the INSERT is run, so
\* it is there when the INSERT fails.
persist_dim_cache_first(st, dim, v, f) ==
    IF ~st.ok THEN st
    ELSE IF CacheHas(st.caches[dim], v)
    THEN LET id == CacheGet(st.caches[dim], v)
         IN  [st EXCEPT !.id = id,
                        !.resolves = Append(@, [dim |-> dim, value |-> v, id |-> id,
                                                hit |-> TRUE])]
    ELSE IF f = dim
    THEN [st EXCEPT !.ok = FALSE,
                    !.caches[dim] = CachePut(@, v, NextRowid(st.tables[dim]))]
    ELSE IF UniqueViolation(st.tables[dim], v)
    THEN [st EXCEPT !.ok = FALSE, !.conflict = TRUE]
    ELSE LET t == InsertDim(st.tables[dim], v)
             last == t[Len(t)].id
             id == last
         IN  [st EXCEPT !.tables[dim] = t,
                        !.lastRowid = last,
                        !.caches[dim] = CachePut(@, v, id),
                        !.id = id,
                        !.resolves = Append(@, [dim |-> dim, value |-> v, id |-> id,
                                                hit |-> FALSE])]

\* Mutant of persist_dim: last_insert_rowid() is read before the INSERT is run,
\* which gives the rowid of the insert before, into whichever table it went.
persist_dim_rowid_before(st, dim, v, f) ==
    IF ~st.ok THEN st
    ELSE IF CacheHas(st.caches[dim], v)
    THEN LET id == CacheGet(st.caches[dim], v)
         IN  [st EXCEPT !.id = id,
                        !.resolves = Append(@, [dim |-> dim, value |-> v, id |-> id,
                                                hit |-> TRUE])]
    ELSE IF f = dim THEN [st EXCEPT !.ok = FALSE]
    ELSE IF UniqueViolation(st.tables[dim], v)
    THEN [st EXCEPT !.ok = FALSE, !.conflict = TRUE]
    ELSE LET t == InsertDim(st.tables[dim], v)
             last == t[Len(t)].id
             id == st.lastRowid
         IN  [st EXCEPT !.tables[dim] = t,
                        !.lastRowid = last,
                        !.caches[dim] = CachePut(@, v, id),
                        !.id = id,
                        !.resolves = Append(@, [dim |-> dim, value |-> v, id |-> id,
                                                hit |-> FALSE])]

\* The body the four persist_<dimension> functions share: the cached id on a
\* hit; on a miss the INSERT, conn.last_insert_rowid(), the cache entry. The
\* INSERT returns Err when the store fails (f names this table) or when the
\* value is in the table already.
persist_dim(st, dim, v, f) ==
    IF ~st.ok THEN st
    ELSE IF CacheHas(st.caches[dim], v)
    THEN LET id == CacheGet(st.caches[dim], v)
         IN  [st EXCEPT !.id = id,
                        !.resolves = Append(@, [dim |-> dim, value |-> v, id |-> id,
                                                hit |-> TRUE])]
    ELSE IF f = dim THEN [st EXCEPT !.ok = FALSE]
    ELSE IF UniqueViolation(st.tables[dim], v)
    THEN [st EXCEPT !.ok = FALSE, !.conflict = TRUE]
    ELSE LET t == InsertDim(st.tables[dim], v)
             \* the rowid of the row just inserted on this connection
             last == t[Len(t)].id
             \* conn.last_insert_rowid() as i32
             id == last
         IN  [st EXCEPT !.tables[dim] = t,
                        !.lastRowid = last,
                        !.caches[dim] = CachePut(@, v, id),
                        !.id = id,
                        !.resolves = Append(@, [dim |-> dim, value |-> v, id |-> id,
                                                hit |-> FALSE])]

\* Mutant of event_type_of: the form's name is made part of the event type.
event_type_with_form(e) ==
    IF e.type = "form_submit" THEN e.type \o ":" \o e.form ELSE e.type

\* persist_event_type: let event_type = match p { .. }
event_type_of(e) ==
    CASE e.type = "page_load" -> "page_load"
      [] e.type = "chat_message" -> "chat_message"
      [] e.type = "form_submit" /\ e.form = "feedback" -> "form_submit"
      [] e.type = "form_submit" /\ e.form = "contact-us" -> "form_submit"

persist_event_type(st, e, f) == persist_dim(st, "event_types", event_type_of(e), f)
persist_path(st, path, f) == persist_dim(st, "paths", path, f)
persist_user_agent(st, ua, f) == persist_dim(st, "user_agents", ua, f)
persist_form_type(st, ft, f) == persist_dim(st, "form_types", ft, f)

\* A row of events with every column that the INSERT does not name NULL.
NullRow ==
    [id |-> 0, session_id |-> 0, page_id |-> 0, timestamp |-> 0, event_id |-> 0,
     path_id |-> NULL, user_agent_id |-> NULL, text |-> NULL, form_id |-> NULL,
     name |-> NULL, email |-> NULL, score |-> NULL]

\* session_id, page_id, timestamp, event_id: the columns every INSERT names.
CommonRow(e, event_id) ==
    [NullRow EXCEPT !.session_id = e.session, !.page_id = e.page,
                    !.timestamp = e.timestamp, !.event_id = event_id]

\* Mutant of insert_event: the row is written without its event_id.
insert_event_untyped(st, row, f) ==
    IF ~st.ok THEN st
    ELSE IF f = "events" THEN [st EXCEPT !.ok = FALSE]
    ELSE LET id == NextRowid(st.facts)
         IN  [st EXCEPT !.facts = Append(@, [row EXCEPT !.id = id, !.event_id = 0]),
                        !.lastRowid = id]

\* self.conn.execute("INSERT INTO events (..) VALUES (..)", params![..])?
insert_event(st, row, f) ==
    IF ~st.ok THEN st
    ELSE IF f = "events" THEN [st EXCEPT !.ok = FALSE]
    ELSE LET id == NextRowid(st.facts)
         IN  [st EXCEPT !.facts = Append(@, [row EXCEPT !.id = id]),
                        !.lastRowid = id]

\* Ctx::persist_event: the event type, then by variant the other dimensions
\* and the INSERT INTO events naming the columns of that variant.
persist_event(st, e, f) ==
    LET s1 == persist_event_type(st, e, f)
        common == CommonRow(e, s1.id)
    IN  CASE e.type = "page_load" ->
               LET s2 == persist_path(s1, e.payload.path, f)
                   s3 == persist_user_agent(s2, e.payload.user_agent, f)
               IN  insert_event(s3, [common EXCEPT !.path_id = Set(s2.id),
                                                   !.user_agent_id = Set(s3.id)], f)
          [] e.type = "chat_message" ->
               insert_event(s1, [common EXCEPT !.text = Set(e.payload.text)], f)
          [] e.type = "form_submit" /\ e.form = "feedback" ->
               LET s2 == persist_form_type(s1, "feedback", f)
               IN  insert_event(s2, [common EXCEPT !.form_id = Set(s2.id),
                                                   !.score = Set(e.payload.score)], f)
          [] e.type = "form_submit" /\ e.form = "contact-us" ->
               LET s2 == persist_form_type(s1, "contact-us", f)
               IN  insert_event(s2, [common EXCEPT !.form_id = Set(s2.id),
                                                   !.name = Set(e.payload.name),
                                                   !.email = Set(e.payload.email)], f)

\* ctx.persist_event(e).unwrap() returning Ok: the dimension rows the event
\* needed and one row in events.
NPersistOk ==
    /\ prog = "norm" /\ pc = "persist" /\ ~exited
    /\ LET st == persist_event(CtxState, cur, "none")
       IN  /\ st.ok
           /\ ctx' = Returned(st)
    /\ rows' = InsertRow(rows, cur)
    /\ pc' = AfterEvent(cur)
    /\ UNCHANGED <<prog, rng, genVars, cur, k, chanVars, workVars, exited>>

\* ctx.persist_event(e).unwrap() on Err: what the steps before the failing one
\* wrote stays written, and main panics.
NPersistErr ==
    /\ prog = "norm" /\ pc = "persist" /\ ~exited
    /\ \E f \in Faults :
          LET st == persist_event(CtxState, cur, f)
          IN  /\ ~st.ok
              /\ ctx' = Returned(st)
    /\ pc' = "panicked_persist"
    /\ UNCHANGED <<prog, rng, genVars, cur, k, chanVars, workVars, rows, exited>>

\* let mut forms = 0; let page_events = rng.gen_range(0..20);
NPageEvents ==
    /\ prog = "norm" /\ pc = "pageevents" /\ ~exited
    /\ forms' = 0
    /\ \E n \in PageEventDraws :
          /\ evLeft' = n
          /\ pageEvents' = Append(pageEvents, n)
    /\ pc' = "event"
    /\ UNCHANGED <<prog, rng, dimVars, clockVars, sess, pagesLeft, page, cur, k, drawn, emitted, chanVars,
                   workVars, rows, exited>>

\* for _ in 0..page_events { generate_event; the forms check; persist_event }
NEvent ==
    /\ prog = "norm" /\ pc = "event" /\ ~exited
    /\ \/ /\ evLeft > 0
          /\ \E c \in ChanceDraws : \E d \in EventDraws(c) :
                LET e == generate_event_n(page, c, SessionTimestamp, d)
                    f == IF IsFormNorm(e) THEN forms + 1 ELSE forms
                IN  /\ drawn' = Append(drawn, e)
                    /\ forms' = f
                    /\ IF IsFormNorm(e) /\ SkipFormNorm(f)
                       THEN /\ pc' = "event"
                            /\ UNCHANGED <<cur, emitted>>
                       ELSE /\ cur' = e
                            /\ emitted' = Append(emitted, e)
                            /\ pc' = "persist"
          /\ evLeft' = evLeft - 1
       \/ /\ evLeft = 0
          /\ pc' = "page"
          /\ UNCHANGED <<evLeft, forms, cur, drawn, emitted>>
    /\ UNCHANGED <<prog, rng, dimVars, clockVars, pageEvents, sess, pagesLeft, page, k, chanVars,
                   workVars, rows, exited>>

\* common::exec_sqlite(&ctx.conn, "SELECT count(*) FROM events").unwrap()
NCount ==
    /\ prog = "norm" /\ pc = "count" /\ ~exited
    /\ \/ pc' = "done"
       \/ pc' = "panicked_persist"
    /\ UNCHANGED <<prog, rng, dimVars, genVars, cur, k, chanVars, workVars, rows, exited>>

Normalized ==
    \/ NSession
    \/ NPage
    \/ NPersistOk
    \/ NPersistErr
    \/ NPageEvents
    \/ NEvent
    \/ NCount

Next ==
    \/ Producer
    \/ \E s \in Sinks : Worker(s)
    \/ Normalized
    \/ Exit

Spec == Init /\ [][Next]_vars

(***************************************************************************)
(* gen_data in a run where no persistence call fails: the same steps       *)
(* without the Err outcomes, every thread that can run being eventually    *)
(* scheduled (OS threads) and the process exiting once main has returned.  *)
(***************************************************************************)
ProducerOk ==
    \/ DSession
    \/ DPage
    \/ \E s \in Sinks : DSendOk(s)
    \/ DPageEvents
    \/ DEvent
    \/ DDrop
    \/ DJoinOk

WorkerOk(s) ==
    \/ WRecv(s)
    \/ WPersistOk(s)
    \/ WFinalizeOk(s)

NoFailNext ==
    \/ ProducerOk
    \/ \E s \in Sinks : WorkerOk(s)
    \/ Exit

NoFailInit == Init /\ prog = "denorm"

NoFailSpec ==
    /\ NoFailInit
    /\ [][NoFailNext]_vars
    /\ WF_vars(ProducerOk)
    /\ \A s \in Sinks : WF_vars(WorkerOk(s))
    /\ WF_vars(Exit)

(***************************************************************************)
(* Both generators, gen_data in a run where no persistence call fails.      *)
(***************************************************************************)
GenNext ==
    \/ NoFailNext
    \/ Normalized

GenSpec == Init /\ [][GenNext]_vars
(***************************************************************************)
(* gen_data alone, the persistence calls of its workers failing up to the   *)
(* bound.                                                                   *)
(***************************************************************************)
FanOutInit == Init /\ prog = "denorm"

FanOutNext ==
    \/ Producer
    \/ \E s \in Sinks : Worker(s)
    \/ Exit

FanOutSpec == FanOutInit /\ [][FanOutNext]_vars


(***************************************************************************)
(* Both generators with the draws of secs that matter to the clock: a run  *)
(* in which every draw is the least value of i8, whose absolute value is    *)
(* not an i8, and a run in which every draw is the value next to it.        *)
(* gen_data runs without a failing persistence call.                        *)
(***************************************************************************)
TimeSecs == {0 - 2 ^ (I8Bits - 1), 1 - 2 ^ (I8Bits - 1)}

TimeRng(secs) == [QuietRng EXCEPT !.secs = {secs}]

TimeInit == \E secs \in TimeSecs : Start(TimeRng(secs))

TimeSpec == TimeInit /\ [][GenNext]_vars
(***************************************************************************)
(* Both generators, gen_data in a run where no persistence call fails, the  *)
(* random source yielding the first and the last index of browsers.         *)
(***************************************************************************)
BrowserInit == Start([QuietRng EXCEPT !.browsers = {0, Len(browsers) - 1}])

BrowserSpec == BrowserInit /\ [][GenNext]_vars

(***************************************************************************)
(* Both generators started on the same random source, gen_data in a run    *)
(* where no persistence call fails: the runs in which the shape of the      *)
(* emitted stream is examined and what the two programs emit is compared.   *)
(***************************************************************************)
TreeInit == Start(QuietRng)

TreeSpec == TreeInit /\ [][GenNext]_vars


(***************************************************************************)
(* gen_data_normalized with more than one value of a dimension to draw: a   *)
(* run that draws from two paths, and a run that draws from two entries of  *)
(* BROWSERS (the empty first entry is one of them).                         *)
(***************************************************************************)
LexRngs ==
    {[QuietRng EXCEPT !.paths = {0, 1}],
     [QuietRng EXCEPT !.browsers = {0, Len(browsers) - 1}]}

NormInit == prog = "norm" /\ \E r \in LexRngs : Start(r)

NormNext ==
    \/ Normalized
    \/ Exit

NormSpec == NormInit /\ [][NormNext]_vars

(***************************************************************************)
(* State functions the properties below are written with.                  *)
(***************************************************************************)
\* The session loop has run to its end (main reached the drops).
GenFinished == pc \in {"drop", "join", "done", "panicked_join"}

Failed(s) == worker[s] = "panicked"

IsFormEvent(e) == e.form \in {"contact-us", "feedback"}

\* Positions in seq of the form-type events of page p.
FormsOfPage(seq, p) == {n \in 1 .. Len(seq) : seq[n].page = p /\ IsFormEvent(seq[n])}

PageIds == {drawn[n].page : n \in 1 .. Len(drawn)}

SetMin(S) == CHOOSE x \in S : \A y \in S : x <= y

(***************************************************************************)
(* C1. In a run of gen_data that completes (main reaches "Done.", which it *)
(* does only when no sink failed), each of the three sinks has persisted   *)
(* every event the generator emitted, exactly once each and in emission    *)
(* order, so the three stores hold the same sequence.                      *)
(***************************************************************************)
C1_AllSinksHoldEmitted ==
    (prog = "denorm" /\ pc = "done") =>
        /\ \A s \in Sinks : persisted[s] = emitted
        /\ \A m, n \in 1 .. Len(emitted) : m # n => emitted[m].id # emitted[n].id

C1_Witness ==
    /\ prog = "denorm" /\ pc = "done"
    /\ Len(emitted) >= 3
    /\ Len(drawn) > Len(emitted)

(***************************************************************************)
(* C2. In every reachable state of gen_data, what a sink's worker has      *)
(* persisted so far is a prefix of what the generator has emitted so far.  *)
(***************************************************************************)
C2_PersistedIsPrefix ==
    prog = "denorm" => \A s \in Sinks : IsPrefix(persisted[s], emitted)

C2_Witness ==
    /\ prog = "denorm"
    /\ Len(emitted) >= 3
    /\ Len(persisted[1]) = 2
    /\ Len(persisted[2]) = 1
    /\ Len(persisted[3]) = 0

(***************************************************************************)
(* C3. If one sink's persistence call fails, only that sink's worker       *)
(* terminates: when the process has exited, every other sink has received  *)
(* and persisted every event of the generator's whole sequence and has     *)
(* performed its end-of-run action.                                        *)
(***************************************************************************)
C3_OtherSinksRunToTheEnd ==
    (prog = "denorm" /\ exited /\ \E s \in Sinks : Failed(s)) =>
        \A t \in Sinks :
            ~Failed(t) =>
                /\ GenFinished
                /\ persisted[t] = emitted
                /\ worker[t] = "done"

(***************************************************************************)
(* C4. The run reaches "Done." only if every sink finalized without error, *)
(* and a failure is reported by main only after every worker has been      *)
(* waited for (each has terminated), not at the first failed worker.       *)
(***************************************************************************)
C4_FailureReportedAfterAllJoined ==
    prog = "denorm" =>
        /\ pc = "done" => \A s \in Sinks : worker[s] = "done"
        /\ pc \in {"panicked_send", "panicked_join"} =>
              \A s \in Sinks : worker[s] \in {"done", "panicked"}

(***************************************************************************)
(* C5. A sink's channel is closed from the producer's side only after the  *)
(* last generated event has been offered to all sinks, and a worker is at  *)
(* its end-of-run action only after its channel was closed and every event *)
(* offered to its queue has been received and persisted.                   *)
(***************************************************************************)
C5_ClosureAfterLastEvent ==
    prog = "denorm" =>
        \A s \in Sinks :
            /\ tx[s] # "live" =>
                  /\ GenFinished
                  /\ \A t \in Sinks : offered[t] = Len(emitted)
            /\ worker[s] \in {"finalize", "done"} =>
                  /\ tx[s] # "live"
                  /\ queue[s] = <<>>
                  /\ Len(persisted[s]) = offered[s]

(***************************************************************************)
(* C6. The run is marked complete only after all three workers have        *)
(* terminated, and a worker's persistence error does not keep the others   *)
(* from shutting down: when the process has exited, every worker that did  *)
(* not fail has performed its end-of-run action and terminated.            *)
(***************************************************************************)
C6_EveryOtherWorkerShutsDown ==
    prog = "denorm" =>
        /\ pc = "done" => \A s \in Sinks : RxGone(s)
        /\ exited => \A t \in Sinks : ~Failed(t) => worker[t] = "done"

C8_PausedSinkBoundAsClaimed ==
    prog = "denorm" =>
        \A A, B \in Sinks :
            (A # B /\ taken[A] = 0) => taken[B] <= Min(QueueCap, Len(emitted))

(***************************************************************************)
(* C8 as amended. While the worker of sink A has consumed n events (n = 0  *)
(* when it was paused from the start), any other sink B has been offered,  *)
(* and so has received, no more than min(n + queue capacity + 1, events    *)
(* generated so far) events, and no more than min(n + queue capacity, ...) *)
(* when B comes after A in the order of the sends.                         *)
(***************************************************************************)
C8_PausedSinkBound ==
    prog = "denorm" =>
        \A A, B \in Sinks :
            A # B =>
                /\ taken[B] <= offered[B]
                /\ offered[B] <=
                      Min(taken[A] + QueueCap + (IF B < A THEN 1 ELSE 0), Len(emitted))

\* Sink 3 has consumed nothing and the producer is blocked on its full buffer,
\* while sink 1 has already received two events.
C8_Witness ==
    /\ prog = "denorm"
    /\ taken[3] = 0
    /\ pc = "send" /\ k = 3 /\ ~CanSend(queue[3]) /\ ~RxGone(3)
    /\ taken[1] = 2

SinkStream(s) ==
    persisted[s] \o (IF worker[s] = "persist" THEN <<inHand[s]>> ELSE <<>>) \o queue[s]

PageLoadsOf(seq, p) == {m \in 1 .. Len(seq) : seq[m].type = "page_load" /\ seq[m].page = p}

Traceable(seq) ==
    \A n \in 1 .. Len(seq) :
        LET origin == PageLoadsOf(seq, seq[n].page)
        IN  /\ Cardinality(origin) = 1
            /\ \A m \in origin : m <= n /\ seq[m].session = seq[n].session

C11_PageIdTracesToEarlierPageLoad ==
    /\ Traceable(emitted)
    /\ \A s \in Sinks : Traceable(SinkStream(s))
    /\ Traceable(rows)

\* A sink holds a page load, a sub-event of it and the page load of another
\* page, while a later event is still on its way to it.
C11_Witness ==
    \E s \in Sinks :
        /\ Len(persisted[s]) = 2
        /\ persisted[s][1].type = "page_load"
        /\ persisted[s][2].type # "page_load"
        /\ queue[s] # <<>>
        /\ queue[s][1].type = "page_load"
        /\ queue[s][1].page # persisted[s][1].page

(***************************************************************************)
(* C12. For every two consecutive sessions the timestamp of the later one   *)
(* minus the timestamp of the earlier one is a whole number of seconds      *)
(* between 0 and 127, whatever value of i8 was drawn for secs, the least    *)
(* one (-128) included.                                                     *)
(***************************************************************************)
C12_SessionDeltaInRange ==
    \A i \in 1 .. Len(sessTs) - 1 :
        sessTs[i + 1] - sessTs[i] \in 0 .. 127

(***************************************************************************)
(* C13. Every emitted event carries the timestamp of its session, so a      *)
(* sub-event carries the timestamp of the page load it belongs to and all   *)
(* page loads of a session carry the same timestamp; the sinks are handed   *)
(* the events with these timestamps.                                        *)
(***************************************************************************)
SessionStamped(seq) == \A n \in 1 .. Len(seq) : seq[n].timestamp = sessTs[seq[n].session]

SamePageSameStamp(seq) ==
    \A n \in 1 .. Len(seq) :
        \A m \in PageLoadsOf(seq, seq[n].page) : seq[m].timestamp = seq[n].timestamp

C13_NoTimeAdvanceWithinSession ==
    /\ SessionStamped(emitted) /\ SamePageSameStamp(emitted)
    /\ \A s \in Sinks : SessionStamped(SinkStream(s))
    /\ SessionStamped(rows)
    /\ \A n \in 1 .. Len(facts) : facts[n].timestamp = rows[n].timestamp

\* A sub-event of the second session in gen_data, the clock having moved
\* between the sessions and again since the second one started.
C13_Witness ==
    /\ prog = "denorm"
    /\ Len(sessTs) = 2
    /\ sessTs[2] # sessTs[1]
    /\ now # sessTs[2]
    /\ \E n \in 1 .. Len(emitted) :
          emitted[n].type # "page_load" /\ emitted[n].session = 2

(***************************************************************************)
(* C14. The page_loads value drawn for a session is one of 1, 2, 4, 8, 12   *)
(* and the session emits that many page_load events (those still to come    *)
(* counted for the session being generated); once the session loop has      *)
(* ended the page_load events emitted are as many as the drawn values sum   *)
(* to; and WeightedIndex::new never fails on the weights 40, 30, 20, 8, 2.  *)
(***************************************************************************)
RECURSIVE SumSeq(_)
SumSeq(seq) == IF Len(seq) = 0 THEN 0 ELSE Head(seq) + SumSeq(Tail(seq))

PageLoadsOfSession(i) ==
    Cardinality({n \in 1 .. Len(emitted) :
                    emitted[n].type = "page_load" /\ emitted[n].session = i})

PageLoadsEmitted ==
    Cardinality({n \in 1 .. Len(emitted) : emitted[n].type = "page_load"})

SessionLoopEnded == GenFinished \/ pc = "count"

C14_PageLoadsAsDrawn ==
    /\ pc # "panicked_dist"
    /\ Len(loads) = sess
    /\ \A i \in 1 .. Len(loads) :
          /\ loads[i] \in {1, 2, 4, 8, 12}
          /\ PageLoadsOfSession(i) = loads[i] - (IF i = sess THEN pagesLeft ELSE 0)
    /\ SessionLoopEnded => pagesLeft = 0 /\ PageLoadsEmitted = SumSeq(loads)

\* The session loop has ended after sessions of one and of two page loads.
C14_Witness ==
    /\ SessionLoopEnded
    /\ loads = <<1, 2>>
    /\ PageLoadsEmitted = 3

(***************************************************************************)
(* State functions of the dimension properties.                            *)
(***************************************************************************)
\* Positions of the rows of dimension table dim that hold value v.
RowsWith(dim, v) == {n \in 1 .. Len(tables[dim]) : tables[dim][n].value = v}

\* The values a resolution of dimension dim can be asked for in this run.
Candidates(dim) ==
    CASE dim = "event_types" -> {"page_load", "chat_message", "form_submit"}
      [] dim = "form_types" -> {"feedback", "contact-us"}
      [] dim = "paths" -> {"/" \o w : w \in random_path}
      [] dim = "user_agents" -> random_browser

\* The four persist_<dimension> functions, by the dimension they resolve.
Resolve(st, dim, v) ==
    CASE dim = "event_types" -> persist_dim(st, "event_types", v, "none")
      [] dim = "form_types" -> persist_form_type(st, v, "none")
      [] dim = "paths" -> persist_path(st, v, "none")
      [] dim = "user_agents" -> persist_user_agent(st, v, "none")

(***************************************************************************)
(* C15. Interning is idempotent: two resolutions of the same value of the   *)
(* same dimension that returned in a run returned the same id, a            *)
(* resolution of a value already resolved returns that id again and leaves  *)
(* the table as it is, and the dimension table holds exactly one row for    *)
(* every value ever resolved.                                               *)
(***************************************************************************)
C15_InterningIdempotent ==
    LET returned == {[dim |-> resolves[a].dim, value |-> resolves[a].value,
                      id |-> resolves[a].id] : a \in 1 .. Len(resolves)}
    IN  /\ \A r, q \in returned : r.dim = q.dim /\ r.value = q.value => r.id = q.id
        /\ \A r \in returned :
              /\ Cardinality(RowsWith(r.dim, r.value)) = 1
              /\ LET again == Resolve(CtxState, r.dim, r.value)
                 IN  /\ again.ok
                     /\ again.id = r.id
                     /\ again.tables = tables

\* One value of a dimension has been resolved twice and another value of that
\* dimension in between.
C15_Witness ==
    \E a, b, c \in 1 .. Len(resolves) :
        /\ a < b /\ b < c
        /\ resolves[a].dim = resolves[b].dim /\ resolves[b].dim = resolves[c].dim
        /\ resolves[a].dim \in {"paths", "user_agents"}
        /\ resolves[a].value = resolves[c].value
        /\ resolves[a].value # resolves[b].value

(***************************************************************************)
(* C16. In every state: each dimension table holds no two rows with the     *)
(* same value and no two rows with the same id, each cache holds one id per *)
(* value and every cache entry is a row of its table. In every step: no     *)
(* cache entry and no dimension row is removed or changed.                  *)
(***************************************************************************)
DimensionEntriesUnique ==
    \A dim \in Dims :
        /\ \A a, b \in 1 .. Len(tables[dim]) :
              (tables[dim][a].value = tables[dim][b].value
                  \/ tables[dim][a].id = tables[dim][b].id) => a = b
        /\ \A c, d \in caches[dim] : c.value = d.value => c = d
        /\ \A c \in caches[dim] : \E n \in 1 .. Len(tables[dim]) : tables[dim][n] = c

DimensionEntriesKept ==
    \A dim \in Dims :
        /\ caches[dim] \subseteq caches'[dim]
        /\ IsPrefix(tables[dim], tables'[dim])

C16_OneIdPerValueForGood ==
    [](DimensionEntriesUnique) /\ [][DimensionEntriesKept]_vars

\* A dimension holds two values, each under its own id, in table and cache.
C16_Witness ==
    \E dim \in {"paths", "user_agents"} :
        /\ Len(tables[dim]) = 2
        /\ Cardinality(caches[dim]) = 2
        /\ Len(tables["event_types"]) >= 1

(***************************************************************************)
(* C17. In every reachable state and for every value a dimension can be     *)
(* asked for: when the value is in the cache, the resolution returns the    *)
(* cached id and leaves caches, dimension tables and events as they are;    *)
(* when it is not, the resolution adds exactly one row, holding the value   *)
(* under an id no row of the table had, to that table and to no other,      *)
(* adds that value and id to that cache and to no other, and returns the    *)
(* id. The resolutions the run has made were a miss the first time a value  *)
(* came and a hit every later time.                                         *)
(***************************************************************************)
HitFrame(dim, v) ==
    LET st == Resolve(CtxState, dim, v)
    IN  /\ st.ok
        /\ st.id = CacheGet(caches[dim], v)
        /\ st.caches = caches
        /\ st.tables = tables
        /\ st.facts = facts

MissFrame(dim, v) ==
    LET st == Resolve(CtxState, dim, v)
    IN  /\ st.ok
        /\ st.tables = [tables EXCEPT ![dim] = Append(@, [id |-> st.id, value |-> v])]
        /\ \A n \in 1 .. Len(tables[dim]) : tables[dim][n].id # st.id
        /\ st.caches = [caches EXCEPT ![dim] = @ \cup {[value |-> v, id |-> st.id]}]
        /\ st.facts = facts

C17_HitAndMissFrames ==
    /\ \A dim \in Dims : \A v \in Candidates(dim) :
          IF CacheHas(caches[dim], v) THEN HitFrame(dim, v) ELSE MissFrame(dim, v)
    /\ \A b \in 1 .. Len(resolves) :
          resolves[b].hit <=>
              \E a \in 1 .. b - 1 : /\ resolves[a].dim = resolves[b].dim
                                     /\ resolves[a].value = resolves[b].value

\* The run has made a hit and a miss on a table that held a row already, and a
\* value of that dimension is still to come.
C17_Witness ==
    \E dim \in {"paths", "user_agents"} :
        /\ \E v \in Candidates(dim) : ~CacheHas(caches[dim], v)
        /\ \E v \in Candidates(dim) : CacheHas(caches[dim], v)
        /\ \E a \in 1 .. Len(resolves) : resolves[a].dim = dim /\ resolves[a].hit
        /\ \E a \in 1 .. Len(resolves) :
              resolves[a].dim = "event_types" /\ ~resolves[a].hit /\ resolves[a].id > 1

(***************************************************************************)
(* C18. In a run of gen_data_normalized, which starts from empty tables and *)
(* empty caches and has one caller, no INSERT into a dimension table        *)
(* violates the UNIQUE constraint: a value that is not in the cache is not  *)
(* in the table either.                                                     *)
(***************************************************************************)
C18_NoDimensionConflict ==
    /\ ~conflict
    /\ \A dim \in Dims : \A v \in Candidates(dim) :
          ~CacheHas(caches[dim], v) => ~UniqueViolation(tables[dim], v)
    /\ pc = "persist" => ~persist_event(CtxState, cur, "none").conflict

\* The run has ended with two rows in a dimension table and a value resolved
\* more than once.
C18_Witness ==
    /\ pc = "done"
    /\ \E dim \in {"paths", "user_agents"} : Len(tables[dim]) = 2
    /\ \E a \in 1 .. Len(resolves) : resolves[a].hit

(***************************************************************************)
(* C19 as claimed. The kind persisted for an event, the event_type column   *)
(* of gen_data and the event_types value of gen_data_normalized, is one of  *)
(* page_load, chat_message, form_submit:feedback, form_submit:contact-us,   *)
(* so that it tells a feedback form from a contact-us form.                 *)
(***************************************************************************)
PersistedKind(e) == IF prog = "denorm" THEN e.type ELSE event_type_of(e)

C19_KindTellsFormsApartAsClaimed ==
    \A n \in 1 .. Len(emitted) :
        /\ PersistedKind(emitted[n]) \in
              {"page_load", "chat_message", "form_submit:feedback",
               "form_submit:contact-us"}
        /\ IsFormEvent(emitted[n]) =>
              PersistedKind(emitted[n]) = "form_submit:" \o emitted[n].form

(***************************************************************************)
(* C19. The kind persisted for an event is one of page_load, chat_message,  *)
(* form_submit; both forms are persisted under form_submit, and what tells  *)
(* feedback from contact-us is the form type, feedback or contact-us, that  *)
(* exactly the form_submit events carry (the form_type of the payload in    *)
(* gen_data, the form_id column and form_types row in gen_data_normalized). *)
(***************************************************************************)
C19_KindAndFormType ==
    /\ \A n \in 1 .. Len(emitted) :
          /\ PersistedKind(emitted[n]) \in {"page_load", "chat_message", "form_submit"}
          /\ PersistedKind(emitted[n]) = "form_submit"
                <=> emitted[n].form \in {"feedback", "contact-us"}
          /\ PersistedKind(emitted[n]) # "form_submit" <=> emitted[n].form = "none"
    /\ \A n \in 1 .. Len(tables["event_types"]) :
          tables["event_types"][n].value \in {"page_load", "chat_message", "form_submit"}
    /\ \A n \in 1 .. Len(tables["form_types"]) :
          tables["form_types"][n].value \in {"feedback", "contact-us"}
    /\ \A n \in 1 .. Len(facts) :
          /\ \E r \in 1 .. Len(tables["event_types"]) :
                /\ tables["event_types"][r].id = facts[n].event_id
                /\ tables["event_types"][r].value = PersistedKind(rows[n])
          /\ IF IsFormEvent(rows[n])
             THEN \E r \in 1 .. Len(tables["form_types"]) :
                     /\ facts[n].form_id = Set(tables["form_types"][r].id)
                     /\ tables["form_types"][r].value = rows[n].form
             ELSE facts[n].form_id = NULL

\* gen_data_normalized has persisted a feedback form: its row points at the
\* event type form_submit and at the form type feedback.
C19_Witness ==
    /\ prog = "norm"
    /\ \E n \in 1 .. Len(facts) :
          /\ rows[n].form = "feedback"
          /\ facts[n].form_id # NULL
    /\ \E r \in 1 .. Len(tables["event_types"]) :
          tables["event_types"][r].value = "form_submit"

(***************************************************************************)
(* C20. In gen_data_normalized the rows of events are, one for one and in   *)
(* order, the events persist_event returned Ok for, which are the emitted   *)
(* events in emission order (all of them but the one being persisted or     *)
(* failed on); every row carries its event's session, page and timestamp;   *)
(* every dimension id of a row is the id of the row of that dimension table *)
(* that holds the event's value; and a row has set, besides these, exactly  *)
(* path_id and user_agent_id for a page load, text for a chat message,      *)
(* form_id and score for a feedback form, form_id, name and email for a     *)
(* contact-us form.                                                         *)
(***************************************************************************)
RefersTo(col, dim, v) ==
    \E r \in 1 .. Len(tables[dim]) :
        col = Set(tables[dim][r].id) /\ tables[dim][r].value = v

SetColumns(row) ==
    {c \in {"path_id", "user_agent_id", "text", "form_id", "name", "email", "score"} :
        row[c] # NULL}

FactOf(row, e) ==
    /\ row.session_id = e.session
    /\ row.page_id = e.page
    /\ row.timestamp = e.timestamp
    /\ RefersTo(Set(row.event_id), "event_types", event_type_of(e))
    /\ CASE e.type = "page_load" ->
              /\ SetColumns(row) = {"path_id", "user_agent_id"}
              /\ RefersTo(row.path_id, "paths", e.payload.path)
              /\ RefersTo(row.user_agent_id, "user_agents", e.payload.user_agent)
         [] e.type = "chat_message" ->
              /\ SetColumns(row) = {"text"}
              /\ row.text = Set(e.payload.text)
         [] e.type = "form_submit" /\ e.form = "feedback" ->
              /\ SetColumns(row) = {"form_id", "score"}
              /\ RefersTo(row.form_id, "form_types", "feedback")
              /\ row.score = Set(e.payload.score)
         [] e.type = "form_submit" /\ e.form = "contact-us" ->
              /\ SetColumns(row) = {"form_id", "name", "email"}
              /\ RefersTo(row.form_id, "form_types", "contact-us")
              /\ row.name = Set(e.payload.name)
              /\ row.email = Set(e.payload.email)

C20_OneFactRowPerEvent ==
    /\ Len(facts) = Len(rows)
    /\ IsPrefix(rows, emitted)
    /\ Len(emitted) - Len(rows) \in {0, 1}
    /\ \A n \in 1 .. Len(facts) : facts[n].id = n /\ FactOf(facts[n], rows[n])

\* Three rows, of a page load, of a form and of the page load of another
\* session, the two page loads differing in path or user agent.
C20_Witness ==
    /\ Len(facts) = 3
    /\ rows[1].type = "page_load"
    /\ rows[2].type = "form_submit"
    /\ rows[3].type = "page_load"
    /\ rows[3].session # rows[1].session
    /\ rows[3].payload # rows[1].payload

(***************************************************************************)
(* C21. The producer offers each event to SQLite, then DuckDB, then         *)
(* DuckDB-typed, and generates the next event only when all three have      *)
(* accepted the current one: in every reachable state offered(SQLite) >=    *)
(* offered(DuckDB) >= offered(DuckDB-typed) >= offered(SQLite) - 1; while   *)
(* the producer is at the send to a sink (blocked on its full buffer or     *)
(* not), that sink and the sinks after it have been offered every emitted   *)
(* event but the pending one, which none of them holds, the sinks before it *)
(* every emitted event; at any other point every sink has been offered      *)
(* every event emitted so far.                                              *)
(***************************************************************************)
AtSend == pc \in {"send", "panicked_send"}

\* Sinks 1, 2, 3 are SQLite, DuckDB, DuckDB-typed (SinkName).
C21_OffersInFixedOrder ==
    /\ offered[1] >= offered[2]
    /\ offered[2] >= offered[3]
    /\ offered[3] >= offered[1] - 1
    /\ AtSend =>
          /\ cur = emitted[Len(emitted)]
          /\ \A s \in Sinks :
                /\ offered[s] = Len(emitted) - (IF s >= k THEN 1 ELSE 0)
                /\ s >= k => \A n \in 1 .. Len(SinkStream(s)) : SinkStream(s)[n].id # cur.id
    /\ ~AtSend => \A s \in Sinks : offered[s] = Len(emitted)

\* The producer is blocked on the full buffer of DuckDB with its second event,
\* which SQLite has been offered and DuckDB-typed has not.
C21_Witness ==
    /\ pc = "send" /\ k = 2
    /\ ~CanSend(queue[2]) /\ ~RxGone(2)
    /\ offered = <<2, 1, 1>>
    /\ Len(emitted) = 2

(***************************************************************************)
(* C22. For every page whose page_events value n has been drawn, n is in    *)
(* 0..19; the draws made for the page so far are n less those still to      *)
(* come, a suppressed form counting as a draw; with f form-type draws among *)
(* them the emitted sub-events of the page are as many as the draws when    *)
(* f = 0 and f - 1 fewer when f >= 1; every chat_message drawn is emitted;  *)
(* so a page load is followed by between 0 and 19 sub-events of its page.   *)
(* A page whose value has not been drawn yet has no sub-event.              *)
(***************************************************************************)
SubEventsOf(seq, p) == {n \in 1 .. Len(seq) : seq[n].page = p /\ seq[n].type # "page_load"}

\* Draws of page p still to come: those of the page being generated.
DrawsLeft(p) == IF p = Len(pageEvents) THEN evLeft ELSE 0

FailsInStore(dim, v) ==
    LET st == persist_dim(CtxState, dim, v, dim)
    IN  /\ ~st.ok
        /\ st.caches = caches
        /\ st.tables = tables
        /\ st.facts = facts

\* The resolution of v with v in the table and not in the cache: the INSERT
\* violates the UNIQUE constraint.
FailsOnUnique(dim, v) ==
    LET before == [CtxState EXCEPT !.caches[dim] = {c \in @ : c.value # v}]
        st == persist_dim(before, dim, v, "none")
    IN  /\ ~st.ok
        /\ st.conflict
        /\ st.caches = before.caches
        /\ st.tables = tables
        /\ st.facts = facts

DimensionFailureKeepsState ==
    /\ \A dim \in Dims : \A v \in Candidates(dim) :
          IF CacheHas(caches[dim], v) THEN FailsOnUnique(dim, v) ELSE FailsInStore(dim, v)
    /\ pc = "persist" =>
          \A dim \in Dims :
              LET st == persist_event(CtxState, cur, dim)
              IN  ~st.ok =>
                      /\ st.facts = facts
                      /\ st.caches[dim] = caches[dim]
                      /\ st.tables[dim] = tables[dim]

PersistFailureIsFatal ==
    /\ (pc = "persist" /\ pc' = "panicked_persist") => facts' = facts /\ rows' = rows
    /\ pc = "panicked_persist" =>
          /\ pc' = pc
          /\ facts' = facts /\ rows' = rows /\ tables' = tables /\ caches' = caches

C23_DimensionFailureIsFatal ==
    [](DimensionFailureKeepsState) /\ [][PersistFailureIsFatal]_vars

\* The run has ended on the failed INSERT of the first event's path: its event
\* type is stored and cached, no path and no event is.
C23_Witness ==
    /\ pc = "panicked_persist" /\ exited
    /\ Len(tables["event_types"]) = 1
    /\ Cardinality(caches["event_types"]) = 1
    /\ tables["paths"] = <<>> /\ caches["paths"] = {}
    /\ facts = <<>>
    /\ Len(emitted) = 1

(***************************************************************************)
(* C24. In gen_data the workers share no state. A step in which the worker  *)
(* of a sink leaves its persistence call, with Ok or with Err, changes      *)
(* nothing of the other two sinks (their tables, their buffers, the events  *)
(* their workers hold, their workers' positions) and nothing of the         *)
(* generator and of main; and the table of a sink changes only in a step of *)
(* that sink's own worker, by the row of the event that worker holds.       *)
(***************************************************************************)
LeavesPersist(s) == worker[s] = "persist" /\ worker'[s] # "persist"

OthersUntouched(s) ==
    \A t \in Sinks \ {s} :
        /\ persisted'[t] = persisted[t]
        /\ queue'[t] = queue[t]
        /\ inHand'[t] = inHand[t]
        /\ worker'[t] = worker[t]
        /\ taken'[t] = taken[t]

WorkersShareNothing ==
    \A s \in Sinks :
        /\ LeavesPersist(s) =>
              /\ OthersUntouched(s)
              /\ UNCHANGED <<genVars, pc, cur, k, tx, offered>>
        /\ persisted'[s] # persisted[s] =>
              /\ LeavesPersist(s)
              /\ persisted'[s] = Append(persisted[s], inHand[s])

C24_WorkersShareNothing == [][WorkersShareNothing]_vars

\* The worker of DuckDB-typed has persisted the first event before the workers
\* of the other two sinks have persisted anything.
C24_Witness ==
    /\ prog = "denorm"
    /\ Len(persisted[3]) = 1
    /\ persisted[1] = <<>> /\ persisted[2] = <<>>
    /\ worker[1] = "persist" /\ worker[2] = "persist"

(***************************************************************************)
(* C25. In every reachable state of gen_data_normalized, a failed           *)
(* persist_event included, each cache holds what its dimension table holds: *)
(* a value is a key of the cache exactly when a row of the table holds it,  *)
(* and the cached id is that row's id. The dimension rows a persist_event   *)
(* inserted before it failed are in the table and in the cache.             *)
(***************************************************************************)
TableContent(dim) == {tables[dim][n] : n \in 1 .. Len(tables[dim])}

C25_CacheMirrorsTable ==
    \A dim \in Dims :
        /\ \A v \in Candidates(dim) :
              CacheHas(caches[dim], v) <=> UniqueViolation(tables[dim], v)
        /\ \A c \in caches[dim] :
              \E n \in 1 .. Len(tables[dim]) :
                  tables[dim][n].value = c.value /\ tables[dim][n].id = c.id
        /\ caches[dim] = TableContent(dim)

\* The INSERT INTO events of the first page load has failed: its event type,
\* path and user agent are stored and cached, and main has panicked.
C25_Witness ==
    /\ pc = "panicked_persist"
    /\ facts = <<>>
    /\ Len(emitted) = 1
    /\ \A dim \in {"event_types", "paths", "user_agents"} :
          Len(tables[dim]) = 1 /\ Cardinality(caches[dim]) = 1

(***************************************************************************)
(* C26. Within each dimension the ids are injective and dense: no two       *)
(* values share an id, and when k values have been resolved their ids are   *)
(* 1..k in the order in which the values were first seen, in the table and  *)
(* in the cache. The id a resolution returns on a miss is the id of the row *)
(* it has just inserted into its own table, whatever other tables were      *)
(* written in between.                                                      *)
(***************************************************************************)
\* The resolutions of dim that inserted a row, in the order they were made.
Misses(dim) == SelectSeq(resolves, LAMBDA r : r.dim = dim /\ ~r.hit)

C26_IdsDenseInFirstSeenOrder ==
    \A dim \in Dims :
        LET misses == Misses(dim)
        IN  /\ \A c, d \in caches[dim] : c.id = d.id => c.value = d.value
            /\ {c.id : c \in caches[dim]} = 1 .. Cardinality(caches[dim])
            /\ \A n \in 1 .. Len(tables[dim]) : tables[dim][n].id = n
            /\ Len(misses) = Len(tables[dim])
            /\ \A j \in 1 .. Len(misses) :
                  /\ misses[j].id = j
                  /\ misses[j].value = tables[dim][j].value
                  /\ [value |-> misses[j].value, id |-> j] \in caches[dim]

\* A dimension has taken its second value when events held two rows or more
\* and event_types had taken its second value already.
C26_Witness ==
    \E dim \in {"paths", "user_agents"} :
        /\ Len(tables[dim]) = 2
        /\ Len(facts) = 3
        /\ Len(tables["event_types"]) = 2

(***************************************************************************)
(* C27. In gen_data_normalized the dimension tables stay bounded however    *)
(* many sessions have run: every row of a table holds a value the generator *)
(* can produce for that dimension and no two rows hold the same value, so   *)
(* event_types has at most 3 rows (page_load, chat_message, form_submit),   *)
(* form_types at most 2 (feedback, contact-us), path_cache at most 40 (a    *)
(* path is "/" and one of the first 40 words), user_agents at most as many  *)
(* as BROWSERS has entries.                                                 *)
(***************************************************************************)
\* The values the generator can hand to the resolution of a dimension, the
\* random source yielding any index of the range it is asked for.
AllPaths == {"/" \o words[i + 1] : i \in 0 .. PathIndexEnd - 1}

AllBrowsers == {browsers[i + 1] : i \in 0 .. Len(browsers) - 1}

Universe(dim) ==
    CASE dim = "event_types" -> {"page_load", "chat_message", "form_submit"}
      [] dim = "form_types" -> {"feedback", "contact-us"}
      [] dim = "paths" -> AllPaths
      [] dim = "user_agents" -> AllBrowsers

RowBound(dim) ==
    CASE dim = "event_types" -> 3
      [] dim = "form_types" -> 2
      [] dim = "paths" -> 40
      [] dim = "user_agents" -> Len(browsers)

C27_DimensionTablesBounded ==
    \A dim \in Dims :
        /\ Candidates(dim) \subseteq Universe(dim)
        /\ \A n \in 1 .. Len(tables[dim]) : tables[dim][n].value \in Universe(dim)
        /\ \A m, n \in 1 .. Len(tables[dim]) :
              tables[dim][m].value = tables[dim][n].value => m = n
        /\ Cardinality(Universe(dim)) <= RowBound(dim)
        /\ Len(tables[dim]) <= RowBound(dim)

\* event_types holds its three rows, a form type is stored, and the run
\* goes on.
C27_Witness ==
    /\ Len(tables["event_types"]) = 3
    /\ Len(tables["form_types"]) = 1
    /\ Len(facts) = 3
    /\ pc = "event"

(***************************************************************************)
(* C28. Every emitted page_load event, of either generator, carries a       *)
(* user_agent that is one of the ten browser strings of BROWSERS and is not *)
(* the empty string.                                                        *)
(***************************************************************************)
\* The browser strings of BROWSERS: its lines that are not empty.
BrowserStrings == {BROWSERS[n] : n \in {m \in 1 .. Len(BROWSERS) : BROWSERS[m] # "\n"}}

C28_UserAgentIsABrowserString ==
    /\ Cardinality(BrowserStrings) = 10
    /\ \A n \in 1 .. Len(emitted) :
          emitted[n].type = "page_load" =>
              /\ emitted[n].payload.user_agent # ""
              /\ emitted[n].payload.user_agent \in BrowserStrings

(***************************************************************************)
(* C29. The emitted stream of either generator is block-structured: it      *)
(* opens with a page_load; the events of one session are contiguous; within *)
(* a session the events of one page are contiguous and the first of them is *)
(* its page_load; every sub-event carries the session_id and the page_id of *)
(* the page_load emitted last before it; and the event emitted last belongs *)
(* to the page generated last, which is of the session being generated      *)
(* unless that session has no page load yet, so that no event of an earlier *)
(* session or page is emitted once a later one has started.                 *)
(***************************************************************************)
\* The position of the page_load emitted last at or before position n.
LastPageLoad(seq, n) ==
    CHOOSE m \in 1 .. n :
        /\ seq[m].type = "page_load"
        /\ \A j \in m + 1 .. n : seq[j].type # "page_load"

\* A key that comes again has stayed since: the entry before its later
\* occurrence holds it too (and so, step by step, every entry in between).
Contiguous(seq, key(_)) ==
    \A c \in 2 .. Len(seq) : \A a \in 1 .. c - 2 :
        key(seq[a]) = key(seq[c]) => key(seq[c - 1]) = key(seq[c])

SessionOf(e) == e.session
PageOf(e) == e.page

C29_StreamIsBlockStructured ==
    /\ Len(emitted) > 0 => emitted[1].type = "page_load"
    /\ Contiguous(emitted, SessionOf)
    /\ Contiguous(emitted, PageOf)
    /\ \A n \in 1 .. Len(emitted) :
          IF emitted[n].type = "page_load"
          THEN \A m \in 1 .. n - 1 : emitted[m].page # emitted[n].page
          ELSE /\ n > 1
               /\ emitted[n].page = emitted[LastPageLoad(emitted, n)].page
               /\ emitted[n].session = emitted[LastPageLoad(emitted, n)].session
    /\ \A m, n \in 1 .. Len(emitted) :
          emitted[m].page = emitted[n].page => emitted[m].session = emitted[n].session
    /\ Len(emitted) > 0 =>
          /\ emitted[Len(emitted)].session = page.session
          /\ emitted[Len(emitted)].page = page.page
          /\ page.session \in {sess - 1, sess}
          /\ page.session = sess - 1 => pc \in {"page", "panicked_abs"}

\* Two sessions: the first with a page load and a sub-event of it, the second
\* with a page load.
C29_Witness ==
    /\ Len(emitted) = 3
    /\ emitted[1].type = "page_load"
    /\ emitted[2].type # "page_load"
    /\ emitted[3].type = "page_load"
    /\ emitted[3].session # emitted[1].session
    /\ pc = "pageevents"

(***************************************************************************)
(* C30. Given the same draws, gen_data and gen_data_normalized emit the     *)
(* same event tree. In every reachable state of either program:             *)
(*  - what the two generate_page_load and the two generate_event make of    *)
(*    the same arguments and draws agrees in id, session, page, kind and    *)
(*    timestamp, form_submit with form_type feedback standing for Feedback  *)
(*    and form_submit with contact-us for ContactUs, and the two programs   *)
(*    take it for a form, and suppress it, in the same cases;               *)
(*  - the emitted stream, ids and payloads left aside, is what one replay   *)
(*    of the draws made so far gives, the same replay for both programs:    *)
(*    for each session its drawn number of page loads at the session's      *)
(*    timestamp, for each page its drawn number of sub-event draws, of      *)
(*    which the forms after the first are left out.                         *)
(***************************************************************************)
Skeleton(e) ==
    [session |-> e.session, page |-> e.page, type |-> e.type, form |-> e.form,
     timestamp |-> e.timestamp]

SameEvent(d, n) == Skeleton(d) = Skeleton(n) /\ d.id = n.id

GeneratorsAgree ==
    /\ \A path \in random_path, browser \in random_browser :
          LET d == generate_page_load(sess, now, path, browser)
              n == generate_page_load_n(sess, now, path, browser)
          IN  SameEvent(d, n) /\ d.payload = n.payload
    /\ \A c \in ChanceDraws :
          LET d == generate_event(page, c, now)
          IN  \A draws \in EventDraws(c) :
                  LET n == generate_event_n(page, c, now, draws)
                  IN  /\ SameEvent(d, n)
                      /\ IsFormDenorm(d) <=> IsFormNorm(n)
    /\ \A f \in 0 .. PageEventsEnd : SkipFormDenorm(f) <=> SkipFormNorm(f)

\* The kinds of the sub-event draws made so far, in the order of the draws.
SubKinds == SelectSeq(drawn, LAMBDA e : e.type # "page_load")

PagesGenerated == Cardinality({n \in 1 .. Len(drawn) : drawn[n].type = "page_load"})

\* The session the p-th page load of the run belongs to.
SessionOfPage(p) ==
    CHOOSE i \in 1 .. Len(loads) :
        /\ SumSeq(SubSeq(loads, 1, i - 1)) < p
        /\ p <= SumSeq(SubSeq(loads, 1, i))

\* The sub-event draws of the p-th page made so far.
DrawsOfPage(p) ==
    IF p > Len(pageEvents) THEN <<>>
    ELSE LET before == SumSeq(SubSeq(pageEvents, 1, p - 1))
         IN  SubSeq(SubKinds, before + 1, Min(before + pageEvents[p], Len(SubKinds)))

\* The draws of a page that are handed on: forms counts the forms so far.
RECURSIVE KeepFirstForm(_, _)
KeepFirstForm(kinds, formsSoFar) ==
    IF Len(kinds) = 0 THEN <<>>
    ELSE LET e == Head(kinds)
             f == IF e.type = "form_submit" THEN formsSoFar + 1 ELSE formsSoFar
         IN  IF e.type = "form_submit" /\ f > 1
             THEN KeepFirstForm(Tail(kinds), f)
             ELSE <<e>> \o KeepFirstForm(Tail(kinds), f)

ReplayPage(p) ==
    LET i == SessionOfPage(p)
        kept == KeepFirstForm(DrawsOfPage(p), 0)
    IN  <<[session |-> i, page |-> p, type |-> "page_load", form |-> "none",
           timestamp |-> sessTs[i]]>>
        \o [j \in 1 .. Len(kept) |->
               [session |-> i, page |-> p, type |-> kept[j].type, form |-> kept[j].form,
                timestamp |-> sessTs[i]]]

RECURSIVE Replay(_)
Replay(p) == IF p = 0 THEN <<>> ELSE Replay(p - 1) \o ReplayPage(p)

OfferToFailedSink == prog = "denorm" /\ pc = "send" /\ worker[k] = "panicked"

\* main has panicked at a send.
ProducerStopped == pc = "panicked_send"

StoppedForGood ==
    /\ OfferToFailedSink => ENABLED DSendErr(k)
    /\ ProducerStopped =>
          /\ worker[k] = "panicked"
          /\ offered[k] < Len(emitted)
          /\ \A s \in Sinks : tx[s] = "unwound"
    /\ pc = "done" => \A s \in Sinks : worker[s] = "done"

NoOfferAfterFailure ==
    /\ \A s \in Sinks :
          worker[s] = "panicked" => offered'[s] = offered[s] /\ worker'[s] = "panicked"
    /\ (OfferToFailedSink /\ <<pc, k, offered, tx, emitted>>' # <<pc, k, offered, tx, emitted>>) =>
          /\ pc' = "panicked_send"
          /\ k' = k
          /\ offered' = offered
          /\ emitted' = emitted
          /\ \A s \in Sinks : tx'[s] = "unwound"
    /\ ProducerStopped =>
          /\ pc' = pc
          /\ offered' = offered
          /\ drawn' = drawn
          /\ emitted' = emitted
          /\ tx' = tx

C31_ProducerStopsAtFailedSink == [](StoppedForGood) /\ [][NoOfferAfterFailure]_vars

\* The worker of the second sink panicked with events still to come: the
\* next event was offered to the first sink, its offer to the second failed,
\* and the process has exited with the third sink never offered it.
C31_Witness ==
    /\ ProducerStopped
    /\ exited
    /\ k = 2
    /\ offered[1] = offered[2] + 1
    /\ offered[3] = offered[2]
    /\ offered[2] >= 1

====
